---- MODULE Spec2Model ----
(***************************************************************************)
(* Model of package rest (rest.go): the Permission bit set, the authorizer *)
(* constructors Everyone and Any, and Handler.ServeHTTP with its helpers   *)
(* handler() and allowed().                                                *)
(*                                                                         *)
(* A Handler is a record of its six fields.  A slot holds either Nil or    *)
(* the name of the http.Handler registered in it.  An authorizer (a Go     *)
(* closure from a request to a Permission) is a record of what the closure *)
(* captured; Call evaluates its body on a request.  A request carries its  *)
(* Method and, as "grant", the permission its credentials stand for (what  *)
(* a credential-inspecting Auth function returns for it).                  *)
(***************************************************************************)
EXTENDS Naturals, Sequences, FiniteSets

VARIABLES h, pc, req, hnd, want, got, w, log, anyF, anyR, anyOut

vars == <<h, pc, req, hnd, want, got, w, log, anyF, anyR, anyOut>>

hvars == <<h, pc, req, hnd, want, got, w, log>>

anyvars == <<anyF, anyR, anyOut>>

(* ------------------------------ bounds --------------------------------- *)

\* Width of the modelled prefix of the uint Permission: the five base bits
\* and one bit above them.
PermBits == 6

\* Number of ServeHTTP calls that may be in flight at once.
NumCalls == 2

\* Longest argument list given to Any.
MaxAny == 3

(* --------------------- Permission (rest.go 14-26) ---------------------- *)

Shl(a, n) == a * (2 ^ n)

RECURSIVE And(_, _)
And(a, b) ==
    IF a = 0 \/ b = 0 THEN 0
    ELSE (a % 2) * (b % 2) + 2 * And(a \div 2, b \div 2)

\* a mutant of Or: p ^= v(r)
RECURSIVE Or_Xor(_, _)
Or_Xor(a, b) ==
    IF a = 0 THEN b
    ELSE IF b = 0 THEN a
    ELSE (((a % 2) + (b % 2)) % 2) + 2 * Or_Xor(a \div 2, b \div 2)

RECURSIVE Or(_, _)
Or(a, b) ==
    IF a = 0 THEN b
    ELSE IF b = 0 THEN a
    ELSE (IF a % 2 = 1 \/ b % 2 = 1 THEN 1 ELSE 0) + 2 * Or(a \div 2, b \div 2)

Permission == 0 .. (2 ^ PermBits - 1)

\* const ( List Permission = 1 << iota; Post; Get; Put; Del; ... )
List == Shl(1, 0)

Post == Shl(1, 1)

\* a mutant of Get: the iota of the previous line
Get_SameAsPost == Shl(1, 1)

Get == Shl(1, 2)

Put == Shl(1, 3)

Del == Shl(1, 4)

Read == Or(List, Get)

Write == Or(Or(Post, Put), Del)

All == Or(Read, Write)

(* ------------------- authorizers (rest.go 28-43) ----------------------- *)

Nil == "nil"

NoFuncs == << >>

\* the nil func value of Handler.Auth
NilAuth == [kind |-> "nil", p |-> 0, f |-> NoFuncs]

\* func Everyone(p Permission) func(r *http.Request) Permission
Everyone(p) == [kind |-> "Everyone", p |-> p, f |-> NoFuncs]

\* func Any(f ...func(r *http.Request) Permission) func(r *http.Request) Permission
Any(f) == [kind |-> "Any", p |-> 0, f |-> f]

\* rest_test.go: func MembersCanWrite(r *http.Request) rest.Permission
MembersCanWrite == [kind |-> "MembersCanWrite", p |-> 0, f |-> NoFuncs]

\* An Auth function as the Handler comment describes it: it inspects the
\* request's credentials and returns the permissions they stand for.
Credential == [kind |-> "Credential", p |-> 0, f |-> NoFuncs]

RECURSIVE Call(_, _)
RECURSIVE AnyLoop(_, _, _, _)

\* for _, v := range f { p |= v(r) }; return p      (i: next index, p: so far)
AnyLoop(f, r, i, p) ==
    IF i > Len(f) THEN p
    ELSE AnyLoop(f, r, i + 1, Or(p, Call(f[i], r)))

\* The body of the closure a, run on request r.
Call(a, r) ==
    CASE a.kind = "Everyone"        -> a.p
      [] a.kind = "Any"             -> AnyLoop(a.f, r, 1, 0)
      [] a.kind = "MembersCanWrite" -> Write
      [] a.kind = "Credential"      -> r.grant

(* ---------------------- Handler (rest.go 57-120) ----------------------- *)

Slots == {"List", "Post", "Get", "Put", "Del"}

Methods == {"GET", "POST", "PUT", "DELETE", "HEAD"}

\* a mutant of handler: List is tried before Get
handler_ListFirst(hd, method) ==
    CASE method = "GET"    -> IF hd.List # Nil THEN <<hd.List, List>> ELSE <<hd.Get, Get>>
      [] method = "POST"   -> <<hd.Post, Post>>
      [] method = "PUT"    -> <<hd.Put, Put>>
      [] method = "DELETE" -> <<hd.Del, Del>>
      [] OTHER             -> <<Nil, 0>>

\* a mutant of handler: the List fallback asks for the Get permission
handler_FallbackWantsGet(hd, method) ==
    CASE method = "GET"    -> IF hd.Get # Nil THEN <<hd.Get, Get>> ELSE <<hd.List, Get>>
      [] method = "POST"   -> <<hd.Post, Post>>
      [] method = "PUT"    -> <<hd.Put, Put>>
      [] method = "DELETE" -> <<hd.Del, Del>>
      [] OTHER             -> <<Nil, 0>>

\* func (h *Handler) handler(method string) (http.Handler, Permission)
handler(hd, method) ==
    CASE method = "GET"    -> IF hd.Get # Nil THEN <<hd.Get, Get>> ELSE <<hd.List, List>>
      [] method = "POST"   -> <<hd.Post, Post>>
      [] method = "PUT"    -> <<hd.Put, Put>>
      [] method = "DELETE" -> <<hd.Del, Del>>
      [] OTHER             -> <<Nil, 0>>

\* a mutant of allowed: GET is listed for List only
allowed_ListOnly(hd) ==
    (IF hd.List # Nil THEN <<"GET">> ELSE << >>)
    \o (IF hd.Post # Nil THEN <<"POST">> ELSE << >>)
    \o (IF hd.Put # Nil THEN <<"PUT">> ELSE << >>)
    \o (IF hd.Del # Nil THEN <<"DELETE">> ELSE << >>)

\* func (h *Handler) allowed() []string
allowed(hd) ==
    (IF hd.List # Nil \/ hd.Get # Nil THEN <<"GET">> ELSE << >>)
    \o (IF hd.Post # Nil THEN <<"POST">> ELSE << >>)
    \o (IF hd.Put # Nil THEN <<"PUT">> ELSE << >>)
    \o (IF hd.Del # Nil THEN <<"DELETE">> ELSE << >>)

\* a mutant of DefaultGot: a nil Auth grants everything
DefaultGot_All == All

\* got := Read
DefaultGot == Read

\* a mutant of Denied: the operands of the comparison swapped
Denied_Swapped(wnt, gt) == And(wnt, gt) # gt

\* want&got != want
Denied(wnt, gt) == And(wnt, gt) # wnt

(* --------------------------- the state --------------------------------- *)

Calls == 1 .. NumCalls

NoHeader == <<"-">>

\* the http.ResponseWriter as the dispatcher left it
FreshW == [status |-> 0, Allow |-> NoHeader, body |-> ""]

NoReq == [Method |-> "", grant |-> 0]

\* anyOut before the call: no result yet (a result is <<p>>)
NoResult == << >>

\* every &rest.Handler{...} literal: each slot nil or set
Handlers(auths) ==
    { [Auth |-> a,
       List |-> IF "List" \in S THEN "List" ELSE Nil,
       Post |-> IF "Post" \in S THEN "Post" ELSE Nil,
       Get  |-> IF "Get" \in S THEN "Get" ELSE Nil,
       Put  |-> IF "Put" \in S THEN "Put" ELSE Nil,
       Del  |-> IF "Del" \in S THEN "Del" ELSE Nil] : S \in SUBSET Slots, a \in auths }

NoHandler == CHOOSE x \in Handlers({NilAuth}) : \A s \in Slots : x[s] = Nil

AuthChoices ==
    {NilAuth, Credential, Everyone(All), MembersCanWrite,
     Any(<<Everyone(List), Everyone(Get)>>)}

ConcAuthChoices == {NilAuth, Credential}

ConcGrants == {Read, Write}

ConcMethods == {"GET", "DELETE", "HEAD"}

InitCalls ==
    /\ pc = [c \in Calls |-> "idle"]
    /\ req = [c \in Calls |-> NoReq]
    /\ hnd = [c \in Calls |-> Nil]
    /\ want = [c \in Calls |-> 0]
    /\ got = [c \in Calls |-> 0]
    /\ w = [c \in Calls |-> FreshW]
    /\ log = [c \in Calls |-> << >>]

InitNoAny ==
    /\ anyF = NoFuncs
    /\ anyR = NoReq
    /\ anyOut = NoResult

Init ==
    /\ h \in Handlers(AuthChoices)
    /\ InitCalls
    /\ InitNoAny

InitConc ==
    /\ h \in Handlers(ConcAuthChoices)
    /\ InitCalls
    /\ InitNoAny

Event(ev, c) == [ev |-> ev, hnd |-> hnd[c], r |-> req[c]]

(* --------------------- ServeHTTP (rest.go 70-86) ----------------------- *)

\* The server hands a new request to h.ServeHTTP(w, r) on call slot c.
Request(c, m, g) ==
    /\ pc[c] = "idle"
    /\ pc' = [pc EXCEPT ![c] = "resolve"]
    /\ req' = [req EXCEPT ![c] = [Method |-> m, grant |-> g]]
    /\ UNCHANGED <<h, hnd, want, got, w, log, anyvars>>

\* a mutant of Resolve: the Auth call is made before the nil check
Resolve_AuthFirst(c) ==
    /\ pc[c] = "resolve"
    /\ hnd' = [hnd EXCEPT ![c] = handler(h, req[c].Method)[1]]
    /\ want' = [want EXCEPT ![c] = handler(h, req[c].Method)[2]]
    /\ pc' = [pc EXCEPT ![c] = "auth"]
    /\ UNCHANGED <<h, req, got, w, log, anyvars>>

\* a mutant of Resolve: the List fallback is stored in the Handler's Get slot
Resolve_Caching(c) ==
    /\ pc[c] = "resolve"
    /\ hnd' = [hnd EXCEPT ![c] = handler(h, req[c].Method)[1]]
    /\ want' = [want EXCEPT ![c] = handler(h, req[c].Method)[2]]
    /\ pc' = [pc EXCEPT ![c] = IF handler(h, req[c].Method)[1] = Nil THEN "allow" ELSE "auth"]
    /\ h' = IF req[c].Method = "GET" /\ h.Get = Nil THEN [h EXCEPT !.Get = h.List] ELSE h
    /\ UNCHANGED <<req, got, w, log, anyvars>>

\* hnd, want := h.handler(r.Method); if hnd == nil { ... }
Resolve(c) ==
    /\ pc[c] = "resolve"
    /\ hnd' = [hnd EXCEPT ![c] = handler(h, req[c].Method)[1]]
    /\ want' = [want EXCEPT ![c] = handler(h, req[c].Method)[2]]
    /\ pc' = [pc EXCEPT ![c] = IF handler(h, req[c].Method)[1] = Nil THEN "allow" ELSE "auth"]
    /\ UNCHANGED <<h, req, got, w, log, anyvars>>

\* w.Header()["Allow"] = h.allowed()
SetAllow(c) ==
    /\ pc[c] = "allow"
    /\ w' = [w EXCEPT ![c].Allow = allowed(h)]
    /\ pc' = [pc EXCEPT ![c] = "error405"]
    /\ UNCHANGED <<h, req, hnd, want, got, log, anyvars>>

\* http.Error(w, "Method not allowed.", http.StatusMethodNotAllowed); return
MethodNotAllowed(c) ==
    /\ pc[c] = "error405"
    /\ w' = [w EXCEPT ![c].status = 405, ![c].body = "Method not allowed."]
    /\ pc' = [pc EXCEPT ![c] = "done"]
    /\ UNCHANGED <<h, req, hnd, want, got, log, anyvars>>

\* got := Read; if h.Auth != nil { got = h.Auth(r) }
Authorize(c) ==
    /\ pc[c] = "auth"
    /\ IF h.Auth # NilAuth
       THEN /\ got' = [got EXCEPT ![c] = Call(h.Auth, req[c])]
            /\ log' = [log EXCEPT ![c] = Append(@, Event("Auth", c))]
       ELSE /\ got' = [got EXCEPT ![c] = DefaultGot]
            /\ log' = log
    /\ pc' = [pc EXCEPT ![c] = "check"]
    /\ UNCHANGED <<h, req, hnd, want, w, anyvars>>

\* if want&got != want { http.Error(w, "Permission denied.", http.StatusForbidden); return }
Check(c) ==
    /\ pc[c] = "check"
    /\ IF Denied(want[c], got[c])
       THEN /\ w' = [w EXCEPT ![c].status = 403, ![c].body = "Permission denied."]
            /\ pc' = [pc EXCEPT ![c] = "done"]
       ELSE /\ w' = w
            /\ pc' = [pc EXCEPT ![c] = "serve"]
    /\ UNCHANGED <<h, req, hnd, want, got, log, anyvars>>

\* a mutant of Forward: the dispatcher writes the status itself before forwarding
Forward_WritesOK(c) ==
    /\ pc[c] = "serve"
    /\ w' = [w EXCEPT ![c].status = 200]
    /\ log' = [log EXCEPT ![c] = Append(@, Event("ServeHTTP", c))]
    /\ pc' = [pc EXCEPT ![c] = "done"]
    /\ UNCHANGED <<h, req, hnd, want, got, anyvars>>

\* hnd.ServeHTTP(w, r)
Forward(c) ==
    /\ pc[c] = "serve"
    /\ log' = [log EXCEPT ![c] = Append(@, Event("ServeHTTP", c))]
    /\ pc' = [pc EXCEPT ![c] = "done"]
    /\ UNCHANGED <<h, req, hnd, want, got, w, anyvars>>

ServeHTTP(c) ==
    \/ Resolve(c)
    \/ SetAllow(c)
    \/ MethodNotAllowed(c)
    \/ Authorize(c)
    \/ Check(c)
    \/ Forward(c)

\* ServeHTTP has returned and the server is done with the request: the call
\* slot, its locals and its ResponseWriter are gone.
Finish(c) ==
    /\ pc[c] = "done"
    /\ pc' = [pc EXCEPT ![c] = "idle"]
    /\ req' = [req EXCEPT ![c] = NoReq]
    /\ hnd' = [hnd EXCEPT ![c] = Nil]
    /\ want' = [want EXCEPT ![c] = 0]
    /\ got' = [got EXCEPT ![c] = 0]
    /\ w' = [w EXCEPT ![c] = FreshW]
    /\ log' = [log EXCEPT ![c] = << >>]
    /\ UNCHANGED <<h, anyvars>>

\* One request at a time, every permission value as its credentials.
Next ==
    \/ \E m \in Methods, g \in Permission : Request(1, m, g)
    \/ ServeHTTP(1)
    \/ Finish(1)

Spec == Init /\ [][Next]_vars

\* NumCalls goroutines inside ServeHTTP of the same Handler.
NextConc ==
    \/ \E c \in Calls, m \in ConcMethods, g \in ConcGrants : Request(c, m, g)
    \/ \E c \in Calls : ServeHTTP(c)
    \/ \E c \in Calls : Finish(c)

SpecConc == InitConc /\ [][NextConc]_vars

(* ----------------------- Any as a pure function ------------------------ *)

SeqsUpTo(S, n) == UNION { [1 .. k -> S] : k \in 0 .. n }

AnyArgs ==
    {Everyone(p) : p \in {0, List, Post, Get, Put, Del, Read, Write, All}}
    \cup {MembersCanWrite, Credential, Any(<<Everyone(Put), Credential>>)}

AnyRequests == [Method : {"GET"}, grant : {0, List, Or(Get, Del), Shl(1, 5)}]

InitAny ==
    /\ h = NoHandler
    /\ InitCalls
    /\ anyF \in SeqsUpTo(AnyArgs, MaxAny)
    /\ anyR \in AnyRequests
    /\ anyOut = NoResult

\* Any(anyF...)(anyR)
ApplyAny ==
    /\ anyOut = NoResult
    /\ anyOut' = <<Call(Any(anyF), anyR)>>
    /\ UNCHANGED <<hvars, anyF, anyR>>

NextAny == ApplyAny

SpecAny == InitAny /\ [][NextAny]_vars

(* ------------------------------ claims --------------------------------- *)

\* The bits of a permission value, as a set of bit positions.
BitsOf(p) == { i \in 0 .. PermBits : (p \div (2 ^ i)) % 2 = 1 }

AuthEvents(c) == { i \in DOMAIN log[c] : log[c][i].ev = "Auth" }

ServeEvents(c) == { i \in DOMAIN log[c] : log[c][i].ev = "ServeHTTP" }

Returned(c) == pc[c] = "done"

Resolved(c) == pc[c] \in {"auth", "check", "serve", "done"} /\ hnd[c] # Nil

\* The slot the specification selects for a method, "none" when there is none.
SlotFor(hd, m) ==
    CASE m = "GET"    -> IF hd.Get # Nil THEN "Get" ELSE IF hd.List # Nil THEN "List" ELSE "none"
      [] m = "POST"   -> IF hd.Post # Nil THEN "Post" ELSE "none"
      [] m = "PUT"    -> IF hd.Put # Nil THEN "Put" ELSE "none"
      [] m = "DELETE" -> IF hd.Del # Nil THEN "Del" ELSE "none"
      [] OTHER        -> "none"

\* Bit position of each slot's permission: List, Post, Get, Put, Del.
BitOfSlot(s) ==
    CASE s = "List" -> 0 [] s = "Post" -> 1 [] s = "Get" -> 2 [] s = "Put" -> 3 [] s = "Del" -> 4

\* C1: once an operation has resolved, the call ends 403 with no operation
\* handler invoked exactly when the required bits are not all among the
\* granted bits; otherwise it is never answered 403, and a call reaches the
\* forwarding step only with the required bits granted.
C1_AccessDecision ==
    \A c \in Calls :
        /\ (Returned(c) /\ Resolved(c)) =>
               ((w[c].status = 403 /\ ServeEvents(c) = {})
                    <=> ~(BitsOf(want[c]) \subseteq BitsOf(got[c])))
        /\ (Returned(c) /\ Resolved(c) /\ BitsOf(want[c]) \subseteq BitsOf(got[c])) =>
               w[c].status # 403
        /\ (pc[c] = "serve" \/ ServeEvents(c) # {}) =>
               BitsOf(want[c]) \subseteq BitsOf(got[c])

\* C1 witness: required = Put, granted = Read: answered 403, nothing invoked.
C1_Witness ==
    \E c \in Calls :
        /\ Returned(c) /\ hnd[c] = "Put" /\ BitsOf(want[c]) = {3}
        /\ BitsOf(got[c]) = {0, 2}
        /\ w[c].status = 403 /\ ServeEvents(c) = {}

\* C2: after resolution, the call holds the handler of the slot the
\* specification selects (Get before List for GET, the method's own slot
\* otherwise, none for other methods) and requires exactly that slot's bit;
\* a request is only ever forwarded to that slot's handler.
C2_Resolution ==
    \A c \in Calls :
        (pc[c] \notin {"idle", "resolve"}) =>
            LET s == SlotFor(h, req[c].Method) IN
            /\ (s = "none") <=> (hnd[c] = Nil)
            /\ (s # "none") => (hnd[c] = h[s] /\ want[c] = 2 ^ BitOfSlot(s))
            /\ \A i \in ServeEvents(c) : s # "none" /\ log[c][i].hnd = h[s]
            /\ (h.List # Nil /\ h.Get # Nil /\ req[c].Method = "GET") =>
                   (hnd[c] = h.Get /\ want[c] = 4)

\* C2 witness: List and Get both present, a GET is forwarded to Get.
C2_Witness ==
    \E c \in Calls :
        /\ h.List # Nil /\ h.Get # Nil /\ req[c].Method = "GET"
        /\ Returned(c) /\ hnd[c] = "Get" /\ want[c] = 4
        /\ ServeEvents(c) # {}

MethodOrder == <<"GET", "POST", "PUT", "DELETE">>

Supported(hd, m) == SlotFor(hd, m) # "none"

ExpectedAllow(hd) == SelectSeq(MethodOrder, LAMBDA m : Supported(hd, m))

Range(s) == { s[i] : i \in DOMAIN s }

\* C3: a call for a method with no slot (or an unknown method) ends 405 with
\* Allow holding, in the order GET, POST, PUT, DELETE, exactly the methods
\* whose slot is present (GET for List or Get), each once, and the methods
\* in Allow are exactly those for which handler() resolves an operation.
C3_AllowHeader ==
    \A c \in Calls :
        /\ (Returned(c) /\ ~Supported(h, req[c].Method)) =>
               /\ w[c].status = 405
               /\ w[c].Allow = ExpectedAllow(h)
               /\ Cardinality(Range(w[c].Allow)) = Len(w[c].Allow)
               /\ Range(w[c].Allow) = { m \in Methods : handler(h, m)[1] # Nil }
               /\ ((\A s \in Slots : h[s] = Nil) => w[c].Allow = << >>)
        /\ (Returned(c) /\ w[c].status = 405) => ~Supported(h, req[c].Method)

\* C3 witness: only List and Post registered, DELETE answered 405 with
\* Allow = GET, POST.
C3_Witness ==
    \E c \in Calls :
        /\ h.List # Nil /\ h.Post # Nil /\ h.Get = Nil /\ h.Put = Nil /\ h.Del = Nil
        /\ req[c].Method = "DELETE" /\ Returned(c)
        /\ w[c].status = 405 /\ w[c].Allow = <<"GET", "POST">>

\* C4: with a nil Auth the granted permission is List|Get for every request:
\* a GET that resolves is forwarded to its handler, and a POST, PUT or DELETE
\* whose slot is present is answered 403 without invoking the handler.
C4_NilAuthReadOnly ==
    \A c \in Calls :
        (h.Auth = NilAuth /\ Resolved(c)) =>
            /\ (pc[c] \in {"check", "serve", "done"}) => BitsOf(got[c]) = {0, 2}
            /\ AuthEvents(c) = {}
            /\ (Returned(c) /\ req[c].Method = "GET") =>
                   /\ w[c] = FreshW
                   /\ Cardinality(ServeEvents(c)) = 1
                   /\ \A i \in ServeEvents(c) : log[c][i].hnd = hnd[c]
            /\ (Returned(c) /\ req[c].Method \in {"POST", "PUT", "DELETE"}) =>
                   (w[c].status = 403 /\ ServeEvents(c) = {})

\* C4 witness: Auth nil, only Put registered, a PUT is answered 403.
C4_Witness ==
    \E c \in Calls :
        /\ h.Auth = NilAuth
        /\ h.Put # Nil /\ h.List = Nil /\ h.Get = Nil /\ h.Post = Nil /\ h.Del = Nil
        /\ req[c].Method = "PUT" /\ Returned(c)
        /\ w[c].status = 403 /\ ServeEvents(c) = {}

Permutations(n) == { q \in [1 .. n -> 1 .. n] : \A i, j \in 1 .. n : i # j => q[i] # q[j] }

Reorderings(f) == { [i \in 1 .. Len(f) |-> f[q[i]]] : q \in Permutations(Len(f)) }

Duplications(f) ==
    { Append(f, f[i]) : i \in 1 .. Len(f) } \cup { <<f[i]>> \o f : i \in 1 .. Len(f) }

\* C5: Any(f1..fn)(req) has exactly the bits granted by at least one fi(req),
\* is the same for every reordering of the list and for the list with any
\* member repeated, and is 0 for the empty list.
C5_AnyIsUnion ==
    (anyOut # NoResult) =>
        /\ BitsOf(anyOut[1]) = UNION { BitsOf(Call(anyF[i], anyR)) : i \in 1 .. Len(anyF) }
        /\ \A g \in Reorderings(anyF) \cup Duplications(anyF) : Call(Any(g), anyR) = anyOut[1]
        /\ (Len(anyF) = 0 => anyOut[1] = 0)

\* C5 witness: Any(Everyone(List), Everyone(Get), Everyone(List)) returned
\* List|Get.
C5_Witness ==
    /\ anyOut # NoResult
    /\ Len(anyF) = 3
    /\ anyF[1] = Everyone(1) /\ anyF[2] = Everyone(4) /\ anyF[3] = Everyone(1)
    /\ BitsOf(anyOut[1]) = {0, 2}

BaseBits == <<List, Post, Get, Put, Del>>

\* C6: List, Post, Get, Put, Del are five pairwise distinct single bits,
\* Read = List|Get, Write = Post|Put|Del, All = Read|Write, Read and Write are
\* disjoint, and every permission a resolved call requires is one base bit.
C6_PermissionBits ==
    /\ \A i \in 1 .. 5 : Cardinality(BitsOf(BaseBits[i])) = 1
    /\ \A i, j \in 1 .. 5 : i # j => BitsOf(BaseBits[i]) # BitsOf(BaseBits[j])
    /\ BitsOf(Read) = BitsOf(List) \cup BitsOf(Get)
    /\ BitsOf(Write) = BitsOf(Post) \cup BitsOf(Put) \cup BitsOf(Del)
    /\ BitsOf(All) = BitsOf(Read) \cup BitsOf(Write)
    /\ BitsOf(Read) \cap BitsOf(Write) = {}
    /\ \A c \in Calls :
           Resolved(c) =>
               /\ Cardinality(BitsOf(want[c])) = 1
               /\ \E i \in 1 .. 5 : want[c] = BaseBits[i]
               /\ BitsOf(want[c]) = {BitOfSlot(hnd[c])}

\* C6 witness: a GET resolved to Get requires the single bit 2.
C6_Witness ==
    \E c \in Calls : Resolved(c) /\ hnd[c] = "Get" /\ BitsOf(want[c]) = {2}

\* C7: a returned call whose required bits are granted has invoked the
\* resolved handler exactly once, with its own request, and nothing else,
\* and has written nothing to the response; the dispatcher writes only on
\* the 405 and 403 paths; every returned call is exactly one of 405, 403,
\* forwarded.
C7_ForwardFrame ==
    \A c \in Calls :
        /\ (Returned(c) /\ Resolved(c) /\ BitsOf(want[c]) \subseteq BitsOf(got[c])) =>
               /\ Cardinality(ServeEvents(c)) = 1
               /\ \A i \in ServeEvents(c) : log[c][i].hnd = hnd[c] /\ log[c][i].r = req[c]
               /\ w[c] = FreshW
        /\ (w[c] # FreshW) =>
               \/ hnd[c] = Nil /\ pc[c] \in {"error405", "done"} /\ w[c].status \in {0, 405}
               \/ hnd[c] # Nil /\ pc[c] = "done" /\ w[c].status = 403
        /\ Returned(c) =>
               \/ w[c].status = 405 /\ ServeEvents(c) = {}
               \/ w[c].status = 403 /\ ServeEvents(c) = {}
               \/ w[c].status = 0 /\ Cardinality(ServeEvents(c)) = 1
        /\ Cardinality(ServeEvents(c)) <= 1

\* C7 witness: Auth = Everyone(All), Del registered, a DELETE was forwarded
\* to Del once and the response is untouched.
C7_Witness ==
    \E c \in Calls :
        /\ h.Auth = Everyone(31) /\ h.Del # Nil
        /\ req[c].Method = "DELETE" /\ Returned(c)
        /\ Cardinality(ServeEvents(c)) = 1 /\ log[c][Len(log[c])].hnd = "Del"
        /\ w[c] = FreshW

FallsBackToList(c) == h.List # Nil /\ h.Get = Nil /\ req[c].Method = "GET"

\* C8 as stated: a GET that falls back to the List handler is answered 403,
\* List not invoked, whenever the granted set lacks the Get bit.
C8_FallbackRequiresGet ==
    \A c \in Calls :
        (Returned(c) /\ FallsBackToList(c) /\ 2 \notin BitsOf(got[c])) =>
            (w[c].status = 403 /\ ServeEvents(c) = {})

\* C8 amended: a GET that falls back to the List handler requires the List
\* bit: it is answered 403, List not invoked, exactly when the granted set
\* lacks the List bit, whether or not it holds the Get bit.
C8_FallbackRequiresList ==
    \A c \in Calls :
        (Returned(c) /\ FallsBackToList(c)) =>
            /\ BitsOf(want[c]) = {0}
            /\ (0 \notin BitsOf(got[c])) => (w[c].status = 403 /\ ServeEvents(c) = {})
            /\ (0 \in BitsOf(got[c])) =>
                   (w[c] = FreshW /\ \A i \in ServeEvents(c) : log[c][i].hnd = h.List)
            /\ (0 \in BitsOf(got[c])) => ServeEvents(c) # {}

\* C8 witness: List without Get, a GET from a caller granted Get but not List
\* is answered 403.
C8_Witness ==
    \E c \in Calls :
        /\ Returned(c) /\ FallsBackToList(c)
        /\ BitsOf(got[c]) = {2}
        /\ w[c].status = 403 /\ ServeEvents(c) = {}

\* C9: a configured Auth function is called once, with the request, in every
\* call that resolves an operation, after the resolution and before the
\* handler is invoked; it is never called when nothing resolves, and such a
\* call ends 405 whatever its credentials would grant.
C9_Order ==
    \A c \in Calls :
        /\ Cardinality(AuthEvents(c)) <= 1
        /\ \A i \in AuthEvents(c) : log[c][i].hnd # Nil /\ log[c][i].r = req[c]
        /\ (AuthEvents(c) # {}) => (hnd[c] # Nil /\ h.Auth # NilAuth)
        /\ (h.Auth # NilAuth /\ hnd[c] # Nil /\ pc[c] \in {"check", "serve", "done"}) =>
               Cardinality(AuthEvents(c)) = 1
        /\ (h.Auth # NilAuth) =>
               \A j \in ServeEvents(c) : \E i \in AuthEvents(c) : i < j
        /\ (pc[c] = "serve" /\ h.Auth # NilAuth) => AuthEvents(c) # {}
        /\ (Returned(c) /\ ~Supported(h, req[c].Method)) =>
               (w[c].status = 405 /\ AuthEvents(c) = {} /\ ServeEvents(c) = {})

\* C9 witness: Auth = Everyone(All), Del not registered, a DELETE is answered
\* 405 and Auth was not called.
C9_Witness ==
    \E c \in Calls :
        /\ h.Auth = Everyone(31) /\ h.Del = Nil /\ h.Get # Nil
        /\ req[c].Method = "DELETE" /\ Returned(c)
        /\ w[c].status = 405 /\ AuthEvents(c) = {}

\* What h.ServeHTTP does with request r when it is the only call.
Alone(hd, r) ==
    LET res == handler(hd, r.Method)
        gt  == IF hd.Auth # NilAuth THEN Call(hd.Auth, r) ELSE DefaultGot
    IN  IF res[1] = Nil
        THEN [w |-> [status |-> 405, Allow |-> allowed(hd), body |-> "Method not allowed."],
              served |-> << >>]
        ELSE IF Denied(res[2], gt)
        THEN [w |-> [status |-> 403, Allow |-> NoHeader, body |-> "Permission denied."],
              served |-> << >>]
        ELSE [w |-> FreshW, served |-> <<res[1]>>]

Served(c) == [i \in 1 .. Cardinality(ServeEvents(c)) |->
                 log[c][CHOOSE j \in ServeEvents(c) :
                            Cardinality({k \in ServeEvents(c) : k <= j}) = i].hnd]

\* C10: no step of any interleaving of ServeHTTP calls changes the Handler,
\* and every returned call has the response and the forwarding it would have
\* had as the only call, a function of its request and the Handler alone.
C10_Interleaving ==
    /\ [][h' = h]_vars
    /\ [](\A c \in Calls :
             Returned(c) => [w |-> w[c], served |-> Served(c)] = Alone(h, req[c]))

\* C10 witness: one call has returned 403 while another, resolved to List,
\* is about to be forwarded.
C10_Witness ==
    /\ Returned(1) /\ w[1].status = 403 /\ req[1].Method = "DELETE"
    /\ pc[2] = "serve" /\ hnd[2] = "List" /\ req[2].Method = "GET"

====
